---------------------------- MODULE Spec2Model ----------------------------
(***************************************************************************)
(* A model of Lazy::Vector<T> and Lazy::BinaryExpression (LazyVector.h).   *)
(*                                                                         *)
(* The element type T is an unsigned integer of WordBits bits, so that     *)
(* arithmetic wraps as it does for unsigned int.  Storage is a heap of     *)
(* blocks; a container is the triple (m_reservedSize, m_size, m_data) of   *)
(* the source.  A slot that `new T[n]` left uninitialised holds Indet;     *)
(* every read of such a slot that feeds a computation yields any value.    *)
(***************************************************************************)
EXTENDS Integers, Sequences, FiniteSets, TLC

\* ------------------------------------------------------------------ bounds
WordBits == 2            \* width of the element type in the model
MaxPush == 9             \* appends in SpecAppend (two reallocations: 4->8->16)
MaxCap == 4              \* Spec: no operation is taken that reserves more
MaxBlocks == 3           \* Spec: blocks allocated in one run
MaxArg == 2              \* Spec: size arguments and list lengths
MaxLen == 2              \* SpecExpr, SpecAssign: length of the containers
MaxApplies == 4          \* SpecLazy: apply calls counted

\* ------------------------------------------------- program constants
DefaultReserved == 4     \* std::size_t m_reservedSize{ 4 }

\* ------------------------------------------------------------- elements
Modulus == 2 ^ WordBits
Values == 0 .. (Modulus - 1)
Indet == 0 - 1           \* an indeterminate (uninitialised) slot
Null == 0                \* nullptr

VecNames == {"a", "b", "c"}

VARIABLES
    vec,      \* container name -> [live, m_reservedSize, m_size, m_data]
    heap,     \* block id -> [cells, released]; ids are 1 .. Len(heap)
    expr,     \* the expression node under construction / evaluation, or NoExpr
    last,     \* the last operation: its name, arguments and result
    pushed,   \* SpecAppend: the values appended so far, in order
    applies,  \* SpecLazy: the BinaryOp::apply calls made so far
    written,  \* SpecAssign: the assignment statement has run
    arithmetic \* std::is_arithmetic<T>::value, fixed for a run

vars == <<vec, heap, expr, last, pushed, applies, written, arithmetic>>


\* ------------------------------------------------------------------ heap
\* A machine state threaded through the statements of one member function:
\* the containers, the heap, and the undefined behaviour met on the way.
Machine(v, h) == [vec |-> v, heap |-> h, ub |-> {}]

Fresh(n) == [cells |-> [i \in 1 .. n |-> Indet], released |-> 0]

\* new T[n]: a block of n indeterminate slots; its id is Len(heap) after it.
Alloc(M, n) == [M EXCEPT !.heap = Append(@, Fresh(n))]

IsBlock(h, p) == p \in 1 .. Len(h)

\* slot i (0-based) of block p can be read and written
Valid(h, p, i) ==
    /\ IsBlock(h, p)
    /\ h[p].released = 0
    /\ i >= 0
    /\ i < Len(h[p].cells)

\* m_data[i] read through pointer p
Load(h, p, i) == IF Valid(h, p, i) THEN h[p].cells[i + 1] ELSE Indet

\* m_data[i] = x through pointer p; a store outside a live block is undefined
Store(M, p, i, x) ==
    IF Valid(M.heap, p, i)
    THEN [M EXCEPT !.heap[p].cells[i + 1] = x]
    ELSE [M EXCEPT !.ub = @ \cup {"wild_store"}]

\* delete[] p; delete[] nullptr does nothing
Release(M, p) ==
    IF p = Null THEN M
    ELSE IF ~IsBlock(M.heap, p) THEN [M EXCEPT !.ub = @ \cup {"wild_delete"}]
    ELSE [M EXCEPT !.heap[p].released = @ + 1,
                   !.heap[p].cells = << >>,
                   !.ub = IF M.heap[p].released > 0
                          THEN @ \cup {"double_delete"} ELSE @]

\* memcpy(dst, src, n * sizeof(T)) between two blocks, both from slot 0
MemCpy(M, dst, src, n) ==
    LET h == M.heap
        fits == /\ IsBlock(h, dst) /\ h[dst].released = 0 /\ n <= Len(h[dst].cells)
                /\ (n = 0 \/ Valid(h, src, n - 1))
        copied == IF IsBlock(h, dst) /\ h[dst].released = 0
                  THEN [h EXCEPT ![dst].cells =
                           [i \in 1 .. Len(h[dst].cells) |->
                               IF i <= n THEN Load(h, src, i - 1) ELSE h[dst].cells[i]]]
                  ELSE h
    IN [M EXCEPT !.heap = copied,
                 !.ub = IF fits THEN @ ELSE @ \cup {"memcpy_out_of_bounds"}]

\* memmove(p + d, p + s, n * sizeof(T)) inside block p
MemMove(M, p, d, s, n) ==
    LET h == M.heap
        live == IsBlock(h, p) /\ h[p].released = 0
        fits == live /\ n >= 0 /\ (n = 0 \/ (Valid(h, p, d + n - 1) /\ Valid(h, p, s + n - 1)))
        moved == IF live /\ n > 0
                 THEN [h EXCEPT ![p].cells =
                          [i \in 1 .. Len(h[p].cells) |->
                              IF i - 1 >= d /\ i - 1 < d + n
                              THEN Load(h, p, s + (i - 1 - d))
                              ELSE h[p].cells[i]]]
                 ELSE h
    IN [M EXCEPT !.heap = moved,
                 !.ub = IF fits THEN @
                        ELSE IF live THEN @ \cup {"memmove_out_of_bounds"}
                        ELSE @ \cup {"use_after_free"}]

\* ------------------------------------------------------------- container
NoVec == [live |-> FALSE, m_reservedSize |-> 0, m_size |-> 0, m_data |-> Null]

\* an iterator: a pointer to slot off of block blk
Iter(blk, off) == [blk |-> blk, off |-> off]
NoIter == Iter(Null, 0)

\* mutant of Reallocate: the memcpy is left out
ReallocateSkipCopy(M, n) ==
    LET v == M.vec[n]
        M1 == Alloc(M, v.m_reservedSize)
        t == Len(M1.heap)
        M3 == Release(M1, v.m_data)
    IN [M3 EXCEPT !.vec[n].m_data = t]

\* void reallocate()
Reallocate(M, n) ==
    LET v == M.vec[n]
        M1 == Alloc(M, v.m_reservedSize)
        t == Len(M1.heap)
        M2 == MemCpy(M1, t, v.m_data, v.m_size)
        M3 == Release(M2, v.m_data)
    IN [M3 EXCEPT !.vec[n].m_data = t]

\* the loop `for (i = from; i < to; ++i) m_data[i] = x` of the constructors,
\* assign and resize
RECURSIVE Fill(_, _, _, _, _)
Fill(M, p, from, to, x) ==
    IF from >= to THEN M ELSE Fill(Store(M, p, from, x), p, from + 1, to, x)

\* the loop that stores the items of xs at m_data[at], m_data[at + 1], ...
RECURSIVE StoreSeq(_, _, _, _)
StoreSeq(M, p, at, xs) ==
    IF xs = << >> THEN M
    ELSE StoreSeq(Store(M, p, at, Head(xs)), p, at + 1, Tail(xs))

\* Vector() noexcept
ConstructDefault(M, n) ==
    LET M1 == Alloc(M, DefaultReserved)
    IN [M1 EXCEPT !.vec[n] = [live |-> TRUE, m_reservedSize |-> DefaultReserved,
                              m_size |-> 0, m_data |-> Len(M1.heap)]]

\* Vector(const std::size_t xi_size, const T& xi_value); Vector(xi_size) is
\* the same with xi_value = T{}
ConstructFill(M, n, size, x) ==
    LET M1 == Alloc(M, 2 * size)
        p == Len(M1.heap)
        M2 == Fill(M1, p, 0, size, x)
    IN [M2 EXCEPT !.vec[n] = [live |-> TRUE, m_reservedSize |-> 2 * size,
                              m_size |-> size, m_data |-> p]]

\* Vector(T* xi_first, T* xi_last), the range holding xs
ConstructRange(M, n, xs) ==
    LET M1 == Alloc(M, 2 * Len(xs))
        p == Len(M1.heap)
        M2 == StoreSeq(M1, p, 0, xs)
    IN [M2 EXCEPT !.vec[n] = [live |-> TRUE, m_reservedSize |-> 2 * Len(xs),
                              m_size |-> Len(xs), m_data |-> p]]

\* Vector(std::initializer_list<T> xi_list): m_size is set to the list's size
\* and then used, and incremented, as the index of every store
ConstructList(M, n, xs) ==
    LET M1 == Alloc(M, 2 * Len(xs))
        p == Len(M1.heap)
        M2 == StoreSeq(M1, p, Len(xs), xs)
    IN [M2 EXCEPT !.vec[n] = [live |-> TRUE, m_reservedSize |-> 2 * Len(xs),
                              m_size |-> Len(xs) + Len(xs), m_data |-> p]]

\* the loop `for (i = from; i < to; ++i) m_data[i] = xi_other.m_data[i]` of
\* the copy and move constructors and assignments
RECURSIVE CopyLoop(_, _, _, _, _)
CopyLoop(M, dst, src, from, to) ==
    IF from >= to THEN M
    ELSE CopyLoop(Store(M, dst, from, Load(M.heap, src, from)), dst, src, from + 1, to)

\* mutant of CopyConstruct: the new container takes the pointer of the other
CopyConstructShallow(M, y, x) ==
    [M EXCEPT !.vec[y] = [live |-> TRUE, m_reservedSize |-> M.vec[x].m_reservedSize,
                          m_size |-> M.vec[x].m_size, m_data |-> M.vec[x].m_data]]

\* Vector(const Vector& xi_other): y is constructed from x
CopyConstruct(M, y, x) ==
    LET o == M.vec[x]
        M1 == Alloc(M, o.m_reservedSize)
        p == Len(M1.heap)
        M2 == CopyLoop(M1, p, o.m_data, 0, o.m_size)
    IN [M2 EXCEPT !.vec[y] = [live |-> TRUE, m_reservedSize |-> o.m_reservedSize,
                              m_size |-> o.m_size, m_data |-> p]]

\* mutant of MoveConstruct: the new container takes the pointer of the
\* other, which keeps it
MoveConstructSteal(M, y, x) ==
    [M EXCEPT !.vec[y] = [live |-> TRUE, m_reservedSize |-> M.vec[x].m_reservedSize,
                          m_size |-> M.vec[x].m_size, m_data |-> M.vec[x].m_data],
              !.vec[x].m_size = 0]

\* Vector(Vector&& xi_other) noexcept: a new block is allocated and filled,
\* then xi_other.m_data = nullptr and xi_other.m_size = 0; the block the
\* other container held is not released
MoveConstruct(M, y, x) ==
    LET M1 == CopyConstruct(M, y, x)
    IN [M1 EXCEPT !.vec[x].m_data = Null, !.vec[x].m_size = 0]

\* Vector& operator=(const Vector& xi_other): m_size is set before
\* reallocate(), whose memcpy then copies the new length from the old block;
\* the function ends without a return statement
CopyAssign(M, x, y) ==
    LET o == M.vec[y]
        M1 == [M EXCEPT !.vec[x].m_size = o.m_size]
        M2 == IF M1.vec[x].m_reservedSize < o.m_size
              THEN Reallocate([M1 EXCEPT !.vec[x].m_reservedSize = 2 * o.m_size], x)
              ELSE M1
        M3 == CopyLoop(M2, M2.vec[x].m_data, M2.vec[y].m_data, 0, o.m_size)
    IN [M3 EXCEPT !.ub = @ \cup {"no_return"}]

\* Vector& operator=(Vector&& xi_other): as the copy assignment, then
\* xi_other.m_data = nullptr and xi_other.m_size = 0
MoveAssign(M, x, y) ==
    LET M1 == CopyAssign(M, x, y)
    IN [M1 EXCEPT !.vec[y].m_data = Null, !.vec[y].m_size = 0]

\* mutant of Swap: rhs.m_data is not exchanged
SwapShareData(M, x, y) ==
    [M EXCEPT !.vec[x] = [M.vec[y] EXCEPT !.live = M.vec[x].live],
              !.vec[y] = [M.vec[x] EXCEPT !.live = M.vec[y].live,
                                          !.m_data = M.vec[y].m_data]]

\* mutant of Swap: the two containers exchange storage and length, each
\* keeps its capacity
SwapKeepCapacity(M, x, y) ==
    [M EXCEPT !.vec[x] = [M.vec[y] EXCEPT !.live = M.vec[x].live,
                                          !.m_reservedSize = M.vec[x].m_reservedSize],
              !.vec[y] = [M.vec[x] EXCEPT !.live = M.vec[y].live,
                                          !.m_reservedSize = M.vec[y].m_reservedSize]]

\* void swap(Vector<T>& rhs)
Swap(M, x, y) ==
    [M EXCEPT !.vec[x] = [M.vec[y] EXCEPT !.live = M.vec[x].live],
              !.vec[y] = [M.vec[x] EXCEPT !.live = M.vec[y].live]]

\* ~Vector()
Destruct(M, n) ==
    LET M1 == Release(M, M.vec[n].m_data)
    IN [M1 EXCEPT !.vec[n].live = FALSE]

\* mutant of GrowIfFull: the capacity grows by one slot
GrowIfFullByOne(M, n) ==
    IF M.vec[n].m_size = M.vec[n].m_reservedSize
    THEN Reallocate([M EXCEPT !.vec[n].m_reservedSize = @ + 1], n)
    ELSE M

\* the growth step shared by push_back, emplace_back, emplace and insert:
\* if (m_size == m_reservedSize) { m_reservedSize *= 2; reallocate(); }
GrowIfFull(M, n) ==
    IF M.vec[n].m_size = M.vec[n].m_reservedSize
    THEN Reallocate([M EXCEPT !.vec[n].m_reservedSize = @ * 2], n)
    ELSE M

\* void push_back(const T&), push_back(T&&), emplace_back(Args&&...)
PushBack(M, n, x) ==
    LET M1 == GrowIfFull(M, n)
        M2 == Store(M1, M1.vec[n].m_data, M1.vec[n].m_size, x)
    IN [M2 EXCEPT !.vec[n].m_size = @ + 1]

\* void pop_back(); the destructor call on an unsigned integer does nothing
PopBack(M, n) == [M EXCEPT !.vec[n].m_size = @ - 1]

\* T* insert(const T* xi_iterator, const T&), insert(const T*, T&&) and
\* emplace(const T*, Args&&...), called with xi_iterator = begin() + pos.
\* iit is taken from m_data before the growth step; after a reallocation it
\* points into the released block, and `xi_iterator - m_data` subtracts
\* pointers into two different blocks.
InsertIit(M, n, pos) == Iter(M.vec[n].m_data, pos)

InsertOne(M, n, pos, x) ==
    LET iit == InsertIit(M, n, pos)
        M1 == GrowIfFull(M, n)
        \* same block: the count is m_size - pos; otherwise the memmove
        \* runs on released storage whatever its count
        M2 == MemMove(M1, iit.blk, iit.off + 1, iit.off, M1.vec[n].m_size - pos)
        M3 == Store(M2, iit.blk, iit.off, x)
    IN [M3 EXCEPT !.vec[n].m_size = @ + 1]

\* T* insert(const T* xi_iterator, xi_count, xi_value), insert(xi_iterator,
\* xi_first, xi_last) and insert(xi_iterator, xi_list), called with
\* xi_iterator = begin() + pos and the values xs: f is taken from m_data
\* before reallocate() replaces the block
InsertBulkF(M, n, pos) == Iter(M.vec[n].m_data, pos)

InsertBulk(M, n, pos, xs) ==
    LET f == InsertBulkF(M, n, pos)
        cnt == Len(xs)
        v == M.vec[n]
        M1 == IF v.m_size + cnt > v.m_reservedSize
              THEN Reallocate([M EXCEPT !.vec[n].m_reservedSize = (v.m_size + cnt) * 4], n)
              ELSE M
        M2 == MemMove(M1, f.blk, f.off + cnt, f.off, v.m_size - pos)
        M3 == StoreSeq(M2, f.blk, f.off, xs)
    IN IF cnt = 0 THEN M ELSE [M3 EXCEPT !.vec[n].m_size = @ + cnt]

\* T* erase(const T* xi_iterator), called with xi_iterator = begin() + pos
EraseOne(M, n, pos) ==
    LET v == M.vec[n]
        M1 == MemMove(M, v.m_data, pos, pos + 1, v.m_size - pos - 1)
    IN [M1 EXCEPT !.vec[n].m_size = @ - 1]

\* T* erase(const T* xi_first, const T* xi_last), called with
\* xi_first = begin() + first and xi_last = begin() + last.  When T is not
\* arithmetic the destructor loop `for (; xi_first != xi_last; ++xi_first)`
\* advances the parameter xi_first itself up to xi_last, and
\* `m_size -= xi_last - xi_first` then subtracts what is left of the range.
EraseRangeFirst(first, lst, arith) == IF arith THEN first ELSE lst

EraseRange(M, n, first, lst, arith) ==
    LET v == M.vec[n]
        M1 == MemMove(M, v.m_data, first, lst, v.m_size - lst)
    IN IF first = lst THEN M
       ELSE [M1 EXCEPT !.vec[n].m_size = @ - (lst - EraseRangeFirst(first, lst, arith))]

\* void resize(const std::size_t xi_size)
Resize(M, n, size) ==
    LET v == M.vec[n]
        M1 == IF size > v.m_size /\ size > v.m_reservedSize
              THEN Reallocate([M EXCEPT !.vec[n].m_reservedSize = size], n)
              ELSE M
    IN [M1 EXCEPT !.vec[n].m_size = size]

\* mutant of ResizeFill: the new slots are not filled
ResizeFillNoFill(M, n, size, x) == Resize(M, n, size)

\* void resize(const std::size_t xi_size, const T& xi_value)
ResizeFill(M, n, size, x) ==
    LET v == M.vec[n]
        M1 == IF size > v.m_size /\ size > v.m_reservedSize
              THEN Reallocate([M EXCEPT !.vec[n].m_reservedSize = size], n)
              ELSE M
        M2 == IF size > v.m_size
              THEN Fill(M1, M1.vec[n].m_data, v.m_size, size, x)
              ELSE M1
    IN [M2 EXCEPT !.vec[n].m_size = size]

\* void reserve(const std::size_t xi_size)
Reserve(M, n, size) ==
    IF size > M.vec[n].m_reservedSize
    THEN Reallocate([M EXCEPT !.vec[n].m_reservedSize = size], n)
    ELSE M

\* void shrink_to_fit()
ShrinkToFit(M, n) ==
    Reallocate([M EXCEPT !.vec[n].m_reservedSize = M.vec[n].m_size], n)

\* mutant of AtCall: the bound is pos <= m_size
AtCallInclusive(M, n, pos) ==
    IF pos <= M.vec[n].m_size
    THEN [thrown |-> FALSE, ref |-> Iter(M.vec[n].m_data, pos)]
    ELSE [thrown |-> TRUE, ref |-> NoIter]

\* T& at(std::size_t pos): a reference to m_data[pos], or std::out_of_range
\* thrown
AtCall(M, n, pos) ==
    IF pos < M.vec[n].m_size
    THEN [thrown |-> FALSE, ref |-> Iter(M.vec[n].m_data, pos)]
    ELSE [thrown |-> TRUE, ref |-> NoIter]

\* void clear() noexcept
Clear(M, n) == [M EXCEPT !.vec[n].m_size = 0]

\* The indices i at which a call invokes m_data[i].~T(); the branches are
\* compiled only when T is not arithmetic.
\* resize(xi_size), both overloads: `for (i = m_size; i < xi_size; ++i)` in
\* the branch taken when xi_size <= m_size
ResizeDestroys(M, n, size, arith) ==
    IF size > M.vec[n].m_size \/ arith THEN {}
    ELSE {i \in 0 .. MaxCap : M.vec[n].m_size <= i /\ i < size}

\* erase(begin() + pos): (*iit).~T()
EraseDestroys(pos, arith) == IF arith THEN {} ELSE {pos}

\* erase(begin() + first, begin() + last): the loop from xi_first to xi_last
EraseRangeDestroys(first, lst, arith) ==
    IF arith THEN {} ELSE {i \in 0 .. MaxCap : first <= i /\ i < lst}

\* clear(): `for (i = 0; i < m_size; ++i)`
ClearDestroys(M, n, arith) ==
    IF arith THEN {} ELSE {i \in 0 .. MaxCap : i < M.vec[n].m_size}

\* void assign(const std::size_t xi_count, const T& xi_value)
AssignFill(M, n, count, x) ==
    LET M1 == IF count > M.vec[n].m_reservedSize
              THEN Reallocate([M EXCEPT !.vec[n].m_reservedSize = 2 * count], n)
              ELSE M
        M2 == [M1 EXCEPT !.vec[n].m_size = count]
    IN Fill(M2, M2.vec[n].m_data, 0, count, x)

\* void assign(const T* xi_first, const T* xi_last), the range holding xs
AssignRange(M, n, xs) ==
    LET count == Len(xs)
        M1 == IF count > M.vec[n].m_reservedSize
              THEN Reallocate([M EXCEPT !.vec[n].m_reservedSize = count * 4], n)
              ELSE M
        M2 == [M1 EXCEPT !.vec[n].m_size = count]
    IN StoreSeq(M2, M2.vec[n].m_data, 0, xs)

\* void assign(std::initializer_list<T> xi_list): as the range form, without
\* the assignment to m_size
AssignList(M, n, xs) ==
    LET count == Len(xs)
        M1 == IF count > M.vec[n].m_reservedSize
              THEN Reallocate([M EXCEPT !.vec[n].m_reservedSize = count * 4], n)
              ELSE M
    IN StoreSeq(M1, M1.vec[n].m_data, 0, xs)

\* Vector& operator=(std::initializer_list<T> xi_list): m_size = 0 after the
\* allocation, then m_data[m_size++] = item; the function ends without a
\* return statement
AssignListOperator(M, n, xs) ==
    LET M1 == IF M.vec[n].m_reservedSize < Len(xs)
              THEN Reallocate([M EXCEPT !.vec[n].m_reservedSize = 2 * Len(xs)], n)
              ELSE M
        M2 == StoreSeq(M1, M1.vec[n].m_data, 0, xs)
    IN [M2 EXCEPT !.vec[n].m_size = Len(xs), !.ub = @ \cup {"no_return"}]

\* ------------------------------------------------------- operation tags
\* The built-in operators of T, by the token written in the source.  T is
\* unsigned: + - * << wrap modulo 2^WordBits; a relational or logical
\* result is converted to T (0 or 1).
RECURSIVE Bitwise(_, _, _, _)
Bitwise(tok, a, b, bits) ==
    IF bits = 0 THEN 0
    ELSE LET x == a % 2
             y == b % 2
             bit == CASE tok = "&" -> IF x = 1 /\ y = 1 THEN 1 ELSE 0
                      [] tok = "|" -> IF x = 1 \/ y = 1 THEN 1 ELSE 0
                      [] tok = "^" -> IF x # y THEN 1 ELSE 0
         IN bit + 2 * Bitwise(tok, a \div 2, b \div 2, bits - 1)

Bool(p) == IF p THEN 1 ELSE 0

\* a / 0 and a shift by the width or more are undefined
Defined(tok, a, b) ==
    /\ tok = "/" => b # 0
    /\ tok \in {"<<", ">>"} => b < WordBits

CppOp(tok, a, b) ==
    CASE tok = "+" -> (a + b) % Modulus
      [] tok = "-" -> (a - b) % Modulus
      [] tok = "*" -> (a * b) % Modulus
      [] tok = "/" -> a \div b
      [] tok \in {"&", "|", "^"} -> Bitwise(tok, a, b, WordBits)
      [] tok = "<<" -> (a * 2 ^ b) % Modulus
      [] tok = ">>" -> a \div 2 ^ b
      [] tok = "&&" -> Bool(a # 0 /\ b # 0)
      [] tok = "||" -> Bool(a # 0 \/ b # 0)
      [] tok = "==" -> Bool(a = b)
      [] tok = "!=" -> Bool(a # b)
      [] tok = "<" -> Bool(a < b)
      [] tok = "<=" -> Bool(a <= b)
      [] tok = ">" -> Bool(a > b)
      [] tok = ">=" -> Bool(a >= b)

\* the outcomes of `a tok b`: one value, or any value when undefined
CppOutcomes(tok, a, b) ==
    IF Defined(tok, a, b) THEN {CppOp(tok, a, b)} ELSE Values

\* CREATE_BINARY_OPERATION(xi_name, xi_operator, xi_assign_operator)
NumericTags == {"ADD", "SUB", "MUL", "DIV", "LOR", "LAND", "LXOR", "SHL", "SHR"}
\* CREATE_BINARY_OPERATION(xi_name, xi_operator)
RelationalTags == {"AND", "OR", "EQ", "NEQ", "LT", "LE", "GT", "GE"}

\* xi_operator of each tag; xi_assign_operator is the same token followed by =
TagOperator(tag) ==
    CASE tag = "ADD" -> "+"   [] tag = "SUB" -> "-"   [] tag = "MUL" -> "*"
      [] tag = "DIV" -> "/"   [] tag = "LOR" -> "|"   [] tag = "LAND" -> "&"
      [] tag = "LXOR" -> "^"  [] tag = "SHL" -> "<<"  [] tag = "SHR" -> ">>"
      [] tag = "AND" -> "&&"  [] tag = "OR" -> "||"   [] tag = "EQ" -> "=="
      [] tag = "NEQ" -> "!="  [] tag = "LT" -> "<"    [] tag = "LE" -> "<="
      [] tag = "GT" -> ">"    [] tag = "GE" -> ">="

\* xi_name<T>::apply(a, b); lcat and rcat say whether each argument is an
\* lvalue (const T&) or a temporary (T&&), which selects the overload.
\* `a op= b` on T computes a op b and stores it in a.
Apply(tag, lcat, rcat, a, b) ==
    IF tag \in NumericTags /\ lcat = "lvalue" /\ rcat = "rvalue"
    THEN CppOutcomes(TagOperator(tag), b, a)     \* b xi_assign_operator a
    ELSE CppOutcomes(TagOperator(tag), a, b)

\* ------------------------------------------------------ expression nodes
\* An operand is a container (held by reference) or a node.  A node keeps
\* its BinaryOp in op; tok is the operator the programmer wrote to build it.
Leaf(n) == [kind |-> "vec", name |-> n]
Node(tag, tok, l, r) == [kind |-> "bin", op |-> tag, tok |-> tok, le |-> l, re |-> r]

\* mutant of Category: a container's slot is passed on as a temporary
CategoryAllTemporaries(e) == "rvalue"

\* le()[index] and re()[index]: a container yields a reference to its slot,
\* a node yields a temporary
Category(e) == IF e.kind = "vec" THEN "lvalue" ELSE "rvalue"

\* the binary operators of Vector other than the two operator& overloads,
\* each with the tag of its return type
VecOperators == {"+", "-", "*", "/", "^", "<<", ">>",
                 "==", "!=", "<", "<=", ">", ">="}

\* mutant of VecTag: operator- is bound to ADD
VecTagSubAsAdd(tok) ==
    CASE tok = "+" -> "ADD"   [] tok = "-" -> "ADD"   [] tok = "*" -> "MUL"
      [] tok = "/" -> "DIV"   [] tok = "^" -> "LXOR"  [] tok = "<<" -> "SHL"
      [] tok = ">>" -> "SHR"  [] tok = "==" -> "EQ"   [] tok = "!=" -> "NEQ"
      [] tok = "<" -> "LT"    [] tok = "<=" -> "LE"   [] tok = ">" -> "GT"
      [] tok = ">=" -> "GE"

VecTag(tok) ==
    CASE tok = "+" -> "ADD"   [] tok = "-" -> "SUB"   [] tok = "*" -> "MUL"
      [] tok = "/" -> "DIV"   [] tok = "^" -> "LXOR"  [] tok = "<<" -> "SHL"
      [] tok = ">>" -> "SHR"  [] tok = "==" -> "EQ"   [] tok = "!=" -> "NEQ"
      [] tok = "<" -> "LT"    [] tok = "<=" -> "LE"   [] tok = ">" -> "GT"
      [] tok = ">=" -> "GE"

\* Vector::operator tok (RightExpr&&) const, on container n
VecBinary(n, tok, r) == Node(VecTag(tok), tok, Leaf(n), r)

\* the operators CREATE_BINARY_EXPRESSION_OPERATOR defines on a node
NodeOperators == {"+=", "-=", "*=", "/=", "|=", "&=", "^=", "<<=", ">>=",
                  "+", "-", "*", "/", "|", "&", "^", "<<", ">>", "&&", "||",
                  "==", "!=", "<", "<=", ">", ">="}

\* BinaryExpression::operator tok (RE&&) const: the node returned has this
\* node's own BinaryOp, whatever tok is
NodeChain(e, tok, r) == Node(e.op, tok, e, r)

\* the containers an expression refers to
RECURSIVE Operands(_)
Operands(e) ==
    IF e.kind = "vec" THEN {e.name} ELSE Operands(e.le) \cup Operands(e.re)

\* a read of slot i of container n: a value, or any value when the slot is
\* indeterminate or outside live storage
ReadSlot(v, h, n, i) ==
    LET x == Load(h, v[n].m_data, i)
    IN IF x = Indet THEN Values ELSE {x}

\* BinaryExpression::operator[](index), and Vector::operator[] at a leaf:
\* the values e[i] can yield
RECURSIVE Index(_, _, _, _)
Index(v, h, e, i) ==
    IF e.kind = "vec" THEN ReadSlot(v, h, e.name, i)
    ELSE UNION {Apply(e.op, Category(e.le), Category(e.re), x, y) :
                    x \in Index(v, h, e.le, i), y \in Index(v, h, e.re, i)}

\* The argument an apply overload assigns to: the overloads of the numeric
\* tags that take a temporary execute `a op= b` (first argument T&&) or
\* `b op= a` (only the second argument T&&); the other overloads assign to
\* neither.
ApplyMutates(tag, lcat, rcat) ==
    IF tag \notin NumericTags THEN "none"
    ELSE IF lcat = "rvalue" THEN "a"
    ELSE IF rcat = "rvalue" THEN "b"
    ELSE "none"

\* the object an operand's operator[] yields: the slot of the container, or
\* a temporary (NoIter)
Yielded(M, e, i) == IF e.kind = "vec" THEN Iter(M.vec[e.name].m_data, i) ELSE NoIter

\* the store `a op= b` makes into the object obj: into container storage
\* when obj is a slot, into nothing the containers hold when it is a
\* temporary
StoreThrough(M, obj, x) == IF obj = NoIter THEN M ELSE Store(M, obj.blk, obj.off, x)

\* BinaryExpression::operator[](index) with the stores of the apply overloads
\* it calls: the pairs of the value yielded and the machine state left
RECURSIVE Eval(_, _, _)
Eval(M, e, i) ==
    IF e.kind = "vec"
    THEN {[val |-> x, M |-> M] : x \in ReadSlot(M.vec, M.heap, e.name, i)}
    ELSE UNION {UNION {
            LET lcat == Category(e.le)
                rcat == Category(e.re)
                who == ApplyMutates(e.op, lcat, rcat)
            IN {[val |-> x,
                 M |-> CASE who = "a" -> StoreThrough(r.M, Yielded(r.M, e.le, i), x)
                         [] who = "b" -> StoreThrough(r.M, Yielded(r.M, e.re, i), x)
                         [] OTHER -> r.M] :
                    x \in Apply(e.op, lcat, rcat, l.val, r.val)} :
            r \in Eval(l.M, e.re, i)} : l \in Eval(M, e.le, i)}

\* Vector& operator=(RightExpr&& xi_expression), the loop from index i on,
\* with the stores of the apply overloads
RECURSIVE AssignEval(_, _, _, _)
AssignEval(M, n, e, i) ==
    IF i >= M.vec[n].m_size THEN {M}
    ELSE UNION {AssignEval(Store(r.M, r.M.vec[n].m_data, i, r.val), n, e, i + 1) :
                    r \in Eval(M, e, i)}

\* ---------------------------------------------------------------- actions
NoExpr == [kind |-> "none"]

PushValues == {1, 2}                       \* values appended and inserted
Sizes == 0 .. MaxArg                       \* size and count arguments
Lists == UNION {[1 .. k -> PushValues] : k \in 0 .. MaxArg}

\* what `last` records of one call
Call(op, who, args, ret, M) ==
    [op |-> op, who |-> who, args |-> args, ret |-> ret, ub |-> M.ub]

Now == Machine(vec, heap)

\* the call ends in machine state M
Commit(M, call) ==
    /\ vec' = M.vec
    /\ heap' = M.heap
    /\ last' = call

\* Spec explores the calls that stay within MaxBlocks allocations and MaxCap
\* slots
Within(M) ==
    /\ Len(M.heap) <= MaxBlocks
    /\ \A n \in VecNames :
          M.vec[n].m_reservedSize <= MaxCap /\ M.vec[n].m_size <= MaxCap

Bounded(M, call) == Within(M) /\ Commit(M, call)

Alive(n) == vec[n].live

DoConstructDefault(n) ==
    /\ ~Alive(n)
    /\ LET M == ConstructDefault(Now, n)
       IN Bounded(M, Call("Vector()", n, << >>, NoIter, M))
    /\ UNCHANGED <<expr, pushed, applies, written, arithmetic>>

DoConstructSize(n) ==
    /\ ~Alive(n)
    /\ \E size \in Sizes :
          LET M == ConstructFill(Now, n, size, 0)
          IN Bounded(M, Call("Vector(size)", n, <<size>>, NoIter, M))
    /\ UNCHANGED <<expr, pushed, applies, written, arithmetic>>

DoConstructFill(n) ==
    /\ ~Alive(n)
    /\ \E size \in Sizes, x \in PushValues :
          LET M == ConstructFill(Now, n, size, x)
          IN Bounded(M, Call("Vector(size,value)", n, <<size, x>>, NoIter, M))
    /\ UNCHANGED <<expr, pushed, applies, written, arithmetic>>

DoConstructRange(n) ==
    /\ ~Alive(n)
    /\ \E xs \in Lists :
          LET M == ConstructRange(Now, n, xs)
          IN Bounded(M, Call("Vector(first,last)", n, <<xs>>, NoIter, M))
    /\ UNCHANGED <<expr, pushed, applies, written, arithmetic>>

DoConstructList(n) ==
    /\ ~Alive(n)
    /\ \E xs \in Lists :
          LET M == ConstructList(Now, n, xs)
          IN Bounded(M, Call("Vector(list)", n, <<xs>>, NoIter, M))
    /\ UNCHANGED <<expr, pushed, applies, written, arithmetic>>

DoDestruct(n) ==
    /\ Alive(n)
    /\ LET M == Destruct(Now, n)
       IN Bounded(M, Call("~Vector", n, << >>, NoIter, M))
    /\ UNCHANGED <<expr, pushed, applies, written, arithmetic>>

DoPushBack(n) ==
    /\ Alive(n)
    /\ \E x \in PushValues :
          LET M == PushBack(Now, n, x)
          IN Bounded(M, Call("push_back", n, <<x>>, NoIter, M))
    /\ UNCHANGED <<expr, pushed, applies, written, arithmetic>>

DoPopBack(n) ==
    /\ Alive(n)
    /\ vec[n].m_size > 0
    /\ LET M == PopBack(Now, n)
       IN Bounded(M, Call("pop_back", n, << >>, NoIter, M))
    /\ UNCHANGED <<expr, pushed, applies, written, arithmetic>>

\* insert(begin() + pos, x), and emplace(begin() + pos, x), 0 <= pos <= size()
DoInsert(n) ==
    /\ Alive(n)
    /\ \E pos \in 0 .. vec[n].m_size, x \in PushValues :
          LET M == InsertOne(Now, n, pos, x)
          IN Bounded(M, Call("insert", n, <<pos, x>>, InsertIit(Now, n, pos), M))
    /\ UNCHANGED <<expr, pushed, applies, written, arithmetic>>

\* erase(begin() + pos), 0 <= pos < size()
DoErase(n) ==
    /\ Alive(n)
    /\ \E pos \in 0 .. vec[n].m_size - 1 :
          LET M == EraseOne(Now, n, pos)
          IN Bounded(M, Call("erase", n, <<pos>>, Iter(vec[n].m_data, pos), M))
    /\ UNCHANGED <<expr, pushed, applies, written, arithmetic>>

DoResize(n) ==
    /\ Alive(n)
    /\ \E size \in Sizes :
          LET M == Resize(Now, n, size)
          IN Bounded(M, Call("resize", n, <<size>>, NoIter, M))
    /\ UNCHANGED <<expr, pushed, applies, written, arithmetic>>

DoResizeFill(n) ==
    /\ Alive(n)
    /\ \E size \in Sizes, x \in PushValues :
          LET M == ResizeFill(Now, n, size, x)
          IN Bounded(M, Call("resize(size,value)", n, <<size, x>>, NoIter, M))
    /\ UNCHANGED <<expr, pushed, applies, written, arithmetic>>

DoReserve(n) ==
    /\ Alive(n)
    /\ \E size \in 0 .. MaxCap :
          LET M == Reserve(Now, n, size)
          IN Bounded(M, Call("reserve", n, <<size>>, NoIter, M))
    /\ UNCHANGED <<expr, pushed, applies, written, arithmetic>>

DoShrinkToFit(n) ==
    /\ Alive(n)
    /\ LET M == ShrinkToFit(Now, n)
       IN Bounded(M, Call("shrink_to_fit", n, << >>, NoIter, M))
    /\ UNCHANGED <<expr, pushed, applies, written, arithmetic>>

DoClear(n) ==
    /\ Alive(n)
    /\ LET M == Clear(Now, n)
       IN Bounded(M, Call("clear", n, << >>, NoIter, M))
    /\ UNCHANGED <<expr, pushed, applies, written, arithmetic>>

DoAssignFill(n) ==
    /\ Alive(n)
    /\ \E count \in Sizes, x \in PushValues :
          LET M == AssignFill(Now, n, count, x)
          IN Bounded(M, Call("assign(count,value)", n, <<count, x>>, NoIter, M))
    /\ UNCHANGED <<expr, pushed, applies, written, arithmetic>>

\* ------------------------------------------------------------------- Spec
\* One container, from before its construction to after its destruction.
NoCall == [op |-> "none", who |-> "", args |-> << >>, ret |-> NoIter, ub |-> {}]

Init ==
    /\ vec = [n \in VecNames |-> NoVec]
    /\ heap = << >>
    /\ expr = NoExpr
    /\ last = NoCall
    /\ pushed = << >>
    /\ applies = 0
    /\ written = FALSE
    /\ arithmetic = TRUE

Next ==
    \/ DoConstructDefault("a")
    \/ DoConstructSize("a")
    \/ DoConstructFill("a")
    \/ DoConstructRange("a")
    \/ DoConstructList("a")
    \/ DoDestruct("a")
    \/ DoPushBack("a")
    \/ DoPopBack("a")
    \/ DoInsert("a")
    \/ DoErase("a")
    \/ DoResize("a")
    \/ DoResizeFill("a")
    \/ DoReserve("a")
    \/ DoShrinkToFit("a")
    \/ DoClear("a")
    \/ DoAssignFill("a")

Spec == Init /\ [][Next]_vars

\* ------------------------------------------------------------- SpecAppend
\* A default-constructed container that is only appended to.
InitAppend ==
    LET M == ConstructDefault(Machine([n \in VecNames |-> NoVec], << >>), "a")
    IN /\ vec = M.vec
       /\ heap = M.heap
       /\ expr = NoExpr
       /\ last = NoCall
       /\ pushed = << >>
       /\ applies = 0
       /\ written = FALSE
       /\ arithmetic = TRUE

AppendOne(op) ==
    /\ Len(pushed) < MaxPush
    /\ \E x \in PushValues :
          LET M == PushBack(Now, "a", x)
          IN /\ Commit(M, Call(op, "a", <<x>>, NoIter, M))
             /\ pushed' = Append(pushed, x)
    /\ UNCHANGED <<expr, applies, written, arithmetic>>

\* void push_back(const T& xi_value)
PushBackCopy == AppendOne("push_back(const T&)")
\* void push_back(T&& xi_value)
PushBackMove == AppendOne("push_back(T&&)")
\* void emplace_back(Args&&... args)
EmplaceBack == AppendOne("emplace_back")

NextAppend == PushBackCopy \/ PushBackMove \/ EmplaceBack

SpecAppend == InitAppend /\ [][NextAppend]_vars

\* --------------------------------------------------- expression actions
\* mutant of AssignLoop: the loop runs to the capacity
RECURSIVE AssignLoopToCapacity(_, _, _, _)
AssignLoopToCapacity(M, n, e, i) ==
    IF i >= M.vec[n].m_reservedSize THEN {M}
    ELSE UNION {AssignLoopToCapacity(Store(M, M.vec[n].m_data, i, x), n, e, i + 1) :
                    x \in Index(M.vec, M.heap, e, i)}

\* the loop of Vector::operator=(RightExpr&&):
\* for (i = 0; i < m_size; ++i) this->operator[](i) = xi_expression[i];
\* the machine states it can end in, from index i on
RECURSIVE AssignLoop(_, _, _, _)
AssignLoop(M, n, e, i) ==
    IF i >= M.vec[n].m_size THEN {M}
    ELSE UNION {AssignLoop(Store(M, M.vec[n].m_data, i, x), n, e, i + 1) :
                    x \in Index(M.vec, M.heap, e, i)}

\* the compound assignment operators of Vector, each with the built-in
\* operator its loop applies to m_data[i]
CompoundOperators == {"+=", "-=", "*=", "/=", "&=", "|=", "^=", "<<=", ">>="}

\* mutant of CompoundBuiltin: operator|= applies &
CompoundBuiltinOrAsAnd(asg) ==
    CASE asg = "+=" -> "+"    [] asg = "-=" -> "-"    [] asg = "*=" -> "*"
      [] asg = "/=" -> "/"    [] asg = "&=" -> "&"    [] asg = "|=" -> "&"
      [] asg = "^=" -> "^"    [] asg = "<<=" -> "<<"  [] asg = ">>=" -> ">>"

CompoundBuiltin(asg) ==
    CASE asg = "+=" -> "+"    [] asg = "-=" -> "-"    [] asg = "*=" -> "*"
      [] asg = "/=" -> "/"    [] asg = "&=" -> "&"    [] asg = "|=" -> "|"
      [] asg = "^=" -> "^"    [] asg = "<<=" -> "<<"  [] asg = ">>=" -> ">>"

\* the loop of Vector::operator asg (RightExpr&&):
\* for (i = 0; i < m_size; ++i) m_data[i] asg xi_expression[i];
RECURSIVE CompoundLoop(_, _, _, _, _)
CompoundLoop(M, n, asg, e, i) ==
    IF i >= M.vec[n].m_size THEN {M}
    ELSE UNION {CompoundLoop(Store(M, M.vec[n].m_data, i, x), n, asg, e, i + 1) :
                    x \in UNION {CppOutcomes(CompoundBuiltin(asg), cur, r) :
                                    cur \in ReadSlot(M.vec, M.heap, n, i),
                                    r \in Index(M.vec, M.heap, e, i)}}

\* an index every container of e has an element at
InRange(e, i) == \A n \in Operands(e) : i < vec[n].m_size

Depth1(e) == e.kind = "bin" /\ e.le.kind = "vec" /\ e.re.kind = "vec"

\* l tok r, on two containers
BuildBinary(l, r) ==
    /\ expr = NoExpr
    /\ \E tok \in VecOperators :
          /\ expr' = VecBinary(l, tok, Leaf(r))
          /\ last' = Call("build", l, <<tok>>, NoIter, Now)
    /\ UNCHANGED <<vec, heap, pushed, applies, written, arithmetic>>

\* l tok (node): the right operand is the node built before
BuildNested(l) ==
    /\ Depth1(expr)
    /\ \E tok \in VecOperators :
          /\ expr' = VecBinary(l, tok, expr)
          /\ last' = Call("build", l, <<tok>>, NoIter, Now)
    /\ UNCHANGED <<vec, heap, pushed, applies, written, arithmetic>>

\* (node) tok r: an operator of the node built before
BuildChain(r) ==
    /\ Depth1(expr)
    /\ \E tok \in NodeOperators :
          /\ expr' = NodeChain(expr, tok, Leaf(r))
          /\ last' = Call("build", "", <<tok>>, NoIter, Now)
    /\ UNCHANGED <<vec, heap, pushed, applies, written, arithmetic>>

\* expr[i]
IndexExpr ==
    /\ expr # NoExpr
    /\ \E i \in 0 .. MaxLen - 1 :
          /\ InRange(expr, i)
          /\ \E x \in Index(vec, heap, expr, i) :
                last' = Call("operator[]", "", <<i>>, x, Now)
    /\ UNCHANGED <<vec, heap, expr, pushed, written, arithmetic>>

DoIndex == IndexExpr /\ UNCHANGED applies

\* n = expr; the node is a temporary of the statement
DoAssignExpr(n) ==
    /\ ~written
    /\ expr # NoExpr
    /\ \E M \in AssignLoop(Now, n, expr, 0) :
          Commit(M, Call("=", n, <<expr>>, NoIter, M))
    /\ expr' = NoExpr
    /\ written' = TRUE
    /\ UNCHANGED <<pushed, applies, arithmetic>>

\* n asg r, r a container
DoCompoundVec(n, r) ==
    /\ ~written
    /\ expr = NoExpr
    /\ \E asg \in CompoundOperators :
          \E M \in CompoundLoop(Now, n, asg, Leaf(r), 0) :
             Commit(M, Call("compound", n, <<asg, Leaf(r)>>, NoIter, M))
    /\ written' = TRUE
    /\ UNCHANGED <<expr, pushed, applies, arithmetic>>

\* n asg expr
DoCompoundExpr(n) ==
    /\ ~written
    /\ expr # NoExpr
    /\ \E asg \in CompoundOperators :
          \E M \in CompoundLoop(Now, n, asg, expr, 0) :
             Commit(M, Call("compound", n, <<asg, expr>>, NoIter, M))
    /\ expr' = NoExpr
    /\ written' = TRUE
    /\ UNCHANGED <<pushed, applies, arithmetic>>

\* --------------------------------------------------------------- SpecExpr
\* Three containers of one length; expressions are built and indexed.
ElemInputs == {0, 1, Modulus - 1}

\* the input arrays: k elements x, 2x, 3x, ... of the element type
Ramp(x, k) == [i \in 1 .. k |-> (x * i) % Modulus]

Ranged(xs, ys, zs) ==
    ConstructRange(ConstructRange(ConstructRange(
        Machine([n \in VecNames |-> NoVec], << >>), "a", xs), "b", ys), "c", zs)

InitExpr ==
    /\ \E k \in 1 .. MaxLen :
          \E x \in ElemInputs, y \in ElemInputs, z \in ElemInputs :
             LET M == Ranged(Ramp(x, k), Ramp(y, k), Ramp(z, k))
             IN vec = M.vec /\ heap = M.heap
    /\ expr = NoExpr
    /\ last = NoCall
    /\ pushed = << >>
    /\ applies = 0
    /\ written = FALSE
    /\ arithmetic = TRUE

NextExpr ==
    \/ BuildBinary("a", "b")
    \/ BuildNested("c")
    \/ BuildChain("c")
    \/ DoIndex

SpecExpr == InitExpr /\ [][NextExpr]_vars

\* ------------------------------------------------------------- SpecAssign
\* a and b of one length, c no longer than them; one statement runs: an
\* expression over a and b is assigned into c, or c is compound-assigned a
\* container or an expression.
InitAssign ==
    /\ \E k \in 0 .. MaxLen :
          \E m \in 0 .. k :
             \E x \in ElemInputs, y \in ElemInputs, z \in ElemInputs :
                LET M == Ranged(Ramp(x, k), Ramp(y, k), Ramp(z, m))
                IN vec = M.vec /\ heap = M.heap
    /\ expr = NoExpr
    /\ last = NoCall
    /\ pushed = << >>
    /\ applies = 0
    /\ written = FALSE
    /\ arithmetic = TRUE

NextAssign ==
    \/ BuildBinary("a", "b")
    \/ DoAssignExpr("c")
    \/ DoCompoundVec("c", "a")
    \/ DoCompoundExpr("c")

SpecAssign == InitAssign /\ [][NextAssign]_vars

\* --------------------------------------------------------------- SpecLazy
\* An element type that counts the apply calls: a node over a and b is
\* built, indexed any number of times, and assigned into c.
\* mutant of ApplyCalls: operator[] answers from a stored result
ApplyCallsCached(e) == 0

\* the BinaryOp::apply calls one operator[] on e makes: one, after those of
\* le()[index] and re()[index]
RECURSIVE ApplyCalls(_)
ApplyCalls(e) ==
    IF e.kind = "vec" THEN 0 ELSE 1 + ApplyCalls(e.le) + ApplyCalls(e.re)

InitLazy ==
    /\ \E x \in ElemInputs, y \in ElemInputs :
          LET M == ConstructFill(ConstructFill(ConstructFill(
                       Machine([n \in VecNames |-> NoVec], << >>),
                       "a", MaxLen, x), "b", MaxLen, y), "c", MaxLen, 0)
          IN vec = M.vec /\ heap = M.heap
    /\ expr = NoExpr
    /\ last = NoCall
    /\ pushed = << >>
    /\ applies = 0
    /\ written = FALSE
    /\ arithmetic = TRUE

CountedIndex ==
    /\ expr # NoExpr
    /\ applies + ApplyCalls(expr) <= MaxApplies
    /\ IndexExpr
    /\ applies' = applies + ApplyCalls(expr)

CountedAssign(n) ==
    /\ expr # NoExpr
    /\ applies + vec[n].m_size * ApplyCalls(expr) <= MaxApplies
    /\ \E M \in AssignLoop(Now, n, expr, 0) :
          Commit(M, Call("=", n, <<expr>>, NoIter, M))
    /\ applies' = applies + vec[n].m_size * ApplyCalls(expr)
    /\ expr' = NoExpr
    /\ UNCHANGED <<pushed, written, arithmetic>>

NextLazy ==
    \/ BuildBinary("a", "b")
    \/ CountedIndex
    \/ CountedAssign("c")

SpecLazy == InitLazy /\ [][NextLazy]_vars

\* -------------------------------------------------------------- SpecErase
\* One container built from a non-empty range, of an arithmetic or a
\* non-arithmetic element type; it is appended to, a value is inserted and
\* erased again, and ranges are erased.
\* the elements m_data[0 .. m_size) of container n
ElemsOf(n) == [i \in 1 .. vec[n].m_size |-> Load(heap, vec[n].m_data, i - 1)]

InitErase ==
    /\ \E xs \in Lists \ {<< >>} :
          LET M == ConstructRange(Machine([n \in VecNames |-> NoVec], << >>), "a", xs)
          IN vec = M.vec /\ heap = M.heap
    /\ expr = NoExpr
    /\ last = NoCall
    /\ pushed = << >>
    /\ applies = 0
    /\ written = FALSE
    /\ arithmetic \in BOOLEAN

\* insert(begin() + pos, x); the call records the elements held before it
RoundInsert(n) ==
    /\ \E pos \in 0 .. vec[n].m_size, x \in PushValues :
          LET M == InsertOne(Now, n, pos, x)
          IN Bounded(M, Call("insert", n, <<pos, x, ElemsOf(n)>>,
                             InsertIit(Now, n, pos), M))
    /\ UNCHANGED <<expr, pushed, applies, written, arithmetic>>

\* erase(begin() + pos), pos the position of the insert just made
RoundErase(n) ==
    /\ last.op = "insert"
    /\ LET pos == last.args[1]
           M == EraseOne(Now, n, pos)
       IN Bounded(M, Call("erase after insert", n, <<pos, last.args[3]>>,
                          Iter(vec[n].m_data, pos), M))
    /\ UNCHANGED <<expr, pushed, applies, written, arithmetic>>

\* erase(begin() + first, begin() + last), 0 <= first <= last <= size()
DoEraseRange(n) ==
    /\ \E first \in 0 .. vec[n].m_size :
          \E lst \in first .. vec[n].m_size :
             LET M == EraseRange(Now, n, first, lst, arithmetic)
             IN Bounded(M, Call("erase(first,last)", n, <<first, lst>>,
                                Iter(vec[n].m_data, first), M))
    /\ UNCHANGED <<expr, pushed, applies, written, arithmetic>>

NextErase ==
    \/ DoPushBack("a")
    \/ RoundInsert("a")
    \/ RoundErase("a")
    \/ DoEraseRange("a")

SpecErase == InitErase /\ [][NextErase]_vars

\* --------------------------------------------------------------- SpecSize
\* One container built from a range (the empty one included); it is read
\* with at() and resized, with shrink_to_fit and clear in between.
InitSize ==
    /\ \E xs \in Lists :
          LET M == ConstructRange(Machine([n \in VecNames |-> NoVec], << >>), "a", xs)
          IN vec = M.vec /\ heap = M.heap
    /\ expr = NoExpr
    /\ last = NoCall
    /\ pushed = << >>
    /\ applies = 0
    /\ written = FALSE
    /\ arithmetic = TRUE

\* at(pos), pos below, at or above size()
DoAt(n) ==
    /\ Alive(n)
    /\ \E pos \in 0 .. MaxCap :
          last' = Call("at", n, <<pos>>, AtCall(Now, n, pos), Now)
    /\ UNCHANGED <<vec, heap, expr, pushed, applies, written, arithmetic>>

NextSize ==
    \/ DoAt("a")
    \/ DoResize("a")
    \/ DoResizeFill("a")
    \/ DoShrinkToFit("a")
    \/ DoClear("a")

SpecSize == InitSize /\ [][NextSize]_vars

\* --------------------------------------------------------------- SpecPair
\* Two containers a and b: a is built from a range, b is copy- or
\* move-constructed from a; they are appended to, assigned, swapped and
\* destroyed.  A call that runs into undefined behaviour ends the run.
Pair == {"a", "b"}

Sound == last.ub = {}

\* Vector y(x)
DoCopyConstruct(y, x) ==
    /\ ~Alive(y) /\ Alive(x)
    /\ LET M == CopyConstruct(Now, y, x)
       IN Bounded(M, Call("Vector(const Vector&)", y, <<x>>, NoIter, M))
    /\ UNCHANGED <<expr, pushed, applies, written, arithmetic>>

\* Vector y(std::move(x))
DoMoveConstruct(y, x) ==
    /\ ~Alive(y) /\ Alive(x)
    /\ LET M == MoveConstruct(Now, y, x)
       IN Bounded(M, Call("Vector(Vector&&)", y, <<x>>, NoIter, M))
    /\ UNCHANGED <<expr, pushed, applies, written, arithmetic>>

\* x = y, y a const container: the copy assignment operator
DoAssignConst(x, y) ==
    /\ Alive(x) /\ Alive(y)
    /\ LET M == CopyAssign(Now, x, y)
       IN Bounded(M, Call("=(const Vector&)", x, <<y>>, NoIter, M))
    /\ UNCHANGED <<expr, pushed, applies, written, arithmetic>>

\* x = y, y a non-const container: overload resolution prefers the template
\* operator=(RightExpr&&) with RightExpr = Vector&, an exact match, to the
\* copy assignment operator, which needs a const qualification
DoAssignNonConst(x, y) ==
    /\ Alive(x) /\ Alive(y)
    /\ \E M \in AssignLoop(Now, x, Leaf(y), 0) :
          Bounded(M, Call("=(Vector&)", x, <<y>>, NoIter, M))
    /\ UNCHANGED <<expr, pushed, applies, written, arithmetic>>

\* x = std::move(y)
DoMoveAssign(x, y) ==
    /\ Alive(x) /\ Alive(y)
    /\ LET M == MoveAssign(Now, x, y)
       IN Bounded(M, Call("=(Vector&&)", x, <<y>>, NoIter, M))
    /\ UNCHANGED <<expr, pushed, applies, written, arithmetic>>

\* x.swap(y)
DoSwap(x, y) ==
    /\ Alive(x) /\ Alive(y)
    /\ LET M == Swap(Now, x, y)
       IN Bounded(M, Call("swap", x, <<y>>, NoIter, M))
    /\ UNCHANGED <<expr, pushed, applies, written, arithmetic>>

\* n[i] = x, i < size()
DoWrite(n) ==
    /\ Alive(n)
    /\ \E i \in 0 .. vec[n].m_size - 1, x \in PushValues :
          LET M == Store(Now, vec[n].m_data, i, x)
          IN Bounded(M, Call("operator[]=", n, <<i, x>>, NoIter, M))
    /\ UNCHANGED <<expr, pushed, applies, written, arithmetic>>

InitPair ==
    /\ \E xs \in Lists :
          LET M == ConstructRange(Machine([n \in VecNames |-> NoVec], << >>), "a", xs)
          IN vec = M.vec /\ heap = M.heap
    /\ expr = NoExpr
    /\ last = NoCall
    /\ pushed = << >>
    /\ applies = 0
    /\ written = FALSE
    /\ arithmetic = TRUE

NextPair ==
    \/ Sound /\ DoCopyConstruct("b", "a")
    \/ Sound /\ DoMoveConstruct("b", "a")
    \/ Sound /\ DoAssignConst("a", "b")
    \/ Sound /\ DoMoveAssign("a", "b")
    \/ Sound /\ DoSwap("a", "b")
    \/ \E n \in Pair : Sound /\ DoDestruct(n)
    \/ \E n \in Pair : Sound /\ DoPushBack(n)

SpecPair == InitPair /\ [][NextPair]_vars

\* --------------------------------------------------------------- SpecCopy
\* a is built from a range and appended to, b is copy-constructed from it,
\* and then one of the two is modified, any number of times.  A call that
\* runs into undefined behaviour ends the run.
\* after the copy, n is the one container modified so far
Turn(n) ==
    /\ Alive("b")
    /\ last.op = "Vector(const Vector&)" \/ last.who = n

NextCopy ==
    \/ Sound /\ ~Alive("b") /\ DoPushBack("a")
    \/ Sound /\ DoCopyConstruct("b", "a")
    \/ \E n \in Pair : Sound /\ Turn(n) /\ DoWrite(n)
    \/ \E n \in Pair : Sound /\ Turn(n) /\ DoPushBack(n)
    \/ \E n \in Pair : Sound /\ Turn(n) /\ DoInsert(n)
    \/ \E n \in Pair : Sound /\ Turn(n) /\ DoErase(n)
    \/ \E n \in Pair : Sound /\ Turn(n) /\ DoResize(n)
    \/ \E n \in Pair : Sound /\ Turn(n) /\ DoClear(n)

SpecCopy == InitPair /\ [][NextCopy]_vars

\* ---- one container assigned to another: x = y ----

\* a and b are both constructed from a range
InitVecAssign ==
    /\ \E xs \in Lists, ys \in Lists :
          LET M == ConstructRange(Machine([n \in VecNames |-> NoVec], << >>), "a", xs)
              N == ConstructRange(M, "b", ys)
          IN vec = N.vec /\ heap = N.heap
    /\ expr = NoExpr
    /\ last = NoCall
    /\ pushed = << >>
    /\ applies = 0
    /\ written = FALSE
    /\ arithmetic = TRUE

NextVecAssign ==
    \/ \E x \in Pair : \E y \in Pair \ {x} : Sound /\ DoAssignConst(x, y)
    \/ \E x \in Pair : \E y \in Pair \ {x} : Sound /\ DoAssignNonConst(x, y)
    \/ \E n \in Pair : Sound /\ DoPushBack(n)

SpecVecAssign == InitVecAssign /\ [][NextVecAssign]_vars

\* ---- the apply overloads of the operation tags, called directly ----
Categories == {"lvalue", "rvalue"}
AllTags == NumericTags \cup RelationalTags

InitApply ==
    /\ vec = [n \in VecNames |-> NoVec]
    /\ heap = << >>
    /\ expr = NoExpr
    /\ last = NoCall
    /\ pushed = << >>
    /\ applies = 0
    /\ written = FALSE
    /\ arithmetic = TRUE

\* xi_name<T>::apply(a, b) with each argument an lvalue or a temporary;
\* last.who is the tag, last.args the value categories and the values; one
\* call in a run
DoApply ==
    /\ last = NoCall
    /\ \E tag \in AllTags, lcat \in Categories, rcat \in Categories,
          a \in Values, b \in Values :
          \E r \in Apply(tag, lcat, rcat, a, b) :
             last' = [op |-> "apply", who |-> tag, args |-> <<lcat, rcat, a, b>>,
                      ret |-> r, ub |-> {}]
    /\ UNCHANGED <<vec, heap, expr, pushed, applies, written, arithmetic>>

NextApply == DoApply

SpecApply == InitApply /\ [][NextApply]_vars

\* ---- the binary operators of Vector, the two operator& included ----

\* the tags of the member templates `operator tok (RightExpr&&) const` that
\* Vector declares: operator& is declared twice, once returning a LAND node
\* and once returning a LOR node, and operator| is not declared
VecDeclared(tok) ==
    CASE tok = "&" -> {"LAND", "LOR"}
      [] tok = "|" -> {}
      [] OTHER -> {VecTag(tok)}

VecTokens == VecOperators \cup {"&", "|"}

\* the statement l tok r on two containers: with exactly one candidate the
\* call builds that candidate's node; with none, or with two templates of
\* the same parameter list, the statement is ill-formed and builds nothing
BuildResolved(l, r) ==
    /\ expr = NoExpr
    /\ \E tok \in VecTokens :
          IF Cardinality(VecDeclared(tok)) = 1
          THEN /\ expr' = Node(CHOOSE tag \in VecDeclared(tok) : TRUE, tok, Leaf(l), Leaf(r))
               /\ last' = Call("build", l, <<tok>>, NoIter, Now)
          ELSE /\ expr' = expr
               /\ last' = Call("ill-formed", l, <<tok>>, NoIter, Now)
    /\ UNCHANGED <<vec, heap, pushed, applies, written, arithmetic>>

NextBitwise ==
    \/ BuildResolved("a", "b")
    \/ DoIndex

SpecBitwise == InitExpr /\ [][NextBitwise]_vars

\* ---- bulk insert: one container built from a range, then inserted into ----

\* insert(begin() + pos, count, x)
DoInsertFill(n) ==
    /\ \E pos \in 0 .. vec[n].m_size, count \in Sizes, x \in PushValues :
          LET xs == [i \in 1 .. count |-> x]
              M == InsertBulk(Now, n, pos, xs)
          IN Bounded(M, Call("insert(count,value)", n, <<pos, xs, ElemsOf(n)>>,
                             InsertBulkF(Now, n, pos), M))
    /\ UNCHANGED <<expr, pushed, applies, written, arithmetic>>

\* insert(begin() + pos, first, last), the range holding xs
DoInsertRange(n) ==
    /\ \E pos \in 0 .. vec[n].m_size, xs \in Lists :
          LET M == InsertBulk(Now, n, pos, xs)
          IN Bounded(M, Call("insert(first,last)", n, <<pos, xs, ElemsOf(n)>>,
                             InsertBulkF(Now, n, pos), M))
    /\ UNCHANGED <<expr, pushed, applies, written, arithmetic>>

\* insert(begin() + pos, { xs })
DoInsertList(n) ==
    /\ \E pos \in 0 .. vec[n].m_size, xs \in Lists :
          LET M == InsertBulk(Now, n, pos, xs)
          IN Bounded(M, Call("insert(list)", n, <<pos, xs, ElemsOf(n)>>,
                             InsertBulkF(Now, n, pos), M))
    /\ UNCHANGED <<expr, pushed, applies, written, arithmetic>>

NextBulk ==
    \/ Sound /\ DoInsertFill("a")
    \/ Sound /\ DoInsertRange("a")
    \/ Sound /\ DoInsertList("a")
    \/ Sound /\ DoErase("a")

SpecBulk == InitSize /\ [][NextBulk]_vars

\* ---- element destruction: a container of an arithmetic or of a
\* non-arithmetic element type is shrunk, erased from and cleared; last.ret
\* is the set of indices whose element the call destroyed ----
DestroyResize(n) ==
    /\ \E size \in Sizes :
          LET M == Resize(Now, n, size)
          IN Bounded(M, Call("resize", n, <<size>>,
                             ResizeDestroys(Now, n, size, arithmetic), M))
    /\ UNCHANGED <<expr, pushed, applies, written, arithmetic>>

DestroyResizeFill(n) ==
    /\ \E size \in Sizes, x \in PushValues :
          LET M == ResizeFill(Now, n, size, x)
          IN Bounded(M, Call("resize(size,value)", n, <<size, x>>,
                             ResizeDestroys(Now, n, size, arithmetic), M))
    /\ UNCHANGED <<expr, pushed, applies, written, arithmetic>>

DestroyErase(n) ==
    /\ \E pos \in 0 .. vec[n].m_size - 1 :
          LET M == EraseOne(Now, n, pos)
          IN Bounded(M, Call("erase", n, <<pos>>, EraseDestroys(pos, arithmetic), M))
    /\ UNCHANGED <<expr, pushed, applies, written, arithmetic>>

DestroyEraseRange(n) ==
    /\ \E first \in 0 .. vec[n].m_size :
          \E lst \in first .. vec[n].m_size :
             LET M == EraseRange(Now, n, first, lst, arithmetic)
             IN Bounded(M, Call("erase(first,last)", n, <<first, lst>>,
                                EraseRangeDestroys(first, lst, arithmetic), M))
    /\ UNCHANGED <<expr, pushed, applies, written, arithmetic>>

DestroyClear(n) ==
    /\ LET M == Clear(Now, n)
       IN Bounded(M, Call("clear", n, << >>, ClearDestroys(Now, n, arithmetic), M))
    /\ UNCHANGED <<expr, pushed, applies, written, arithmetic>>

NextDestroy ==
    \/ DestroyResize("a")
    \/ DestroyResizeFill("a")
    \/ DestroyErase("a")
    \/ DestroyEraseRange("a")
    \/ DestroyClear("a")

SpecDestroy == InitErase /\ [][NextDestroy]_vars

\* ---- the operands of an expression: a node over a and b is built, nested
\* or chained, indexed, and assigned into c, each evaluation with the stores
\* its apply calls make ----

\* expr[i]
EvalIndex ==
    /\ expr # NoExpr
    /\ \E i \in 0 .. MaxLen - 1 :
          /\ InRange(expr, i)
          /\ \E r \in Eval(Now, expr, i) :
                Commit(r.M, Call("operator[]", "", <<i>>, r.val, r.M))
    /\ UNCHANGED <<expr, pushed, applies, written, arithmetic>>

\* n = expr, n no operand of expr: the statement assigns the node it has
\* just built
EvalAssign(n) ==
    /\ ~written /\ last.op = "build"
    /\ expr # NoExpr /\ n \notin Operands(expr)
    /\ \E M \in AssignEval(Now, n, expr, 0) :
          Commit(M, Call("=", n, <<expr>>, NoIter, M))
    /\ expr' = NoExpr
    /\ written' = TRUE
    /\ UNCHANGED <<pushed, applies, arithmetic>>

\* a and b of one length with the elements of two ramps, c of that length
\* with every element 0
InitFrame ==
    /\ \E k \in 1 .. MaxLen :
          \E x \in ElemInputs, y \in ElemInputs :
             LET M == Ranged(Ramp(x, k), Ramp(y, k), Ramp(0, k))
             IN vec = M.vec /\ heap = M.heap
    /\ expr = NoExpr
    /\ last = NoCall
    /\ pushed = << >>
    /\ applies = 0
    /\ written = FALSE
    /\ arithmetic = TRUE

NextFrame ==
    \/ ~written /\ BuildBinary("a", "b")
    \/ ~written /\ BuildNested("a")
    \/ ~written /\ BuildChain("b")
    \/ ~written /\ EvalIndex
    \/ EvalAssign("c")

SpecFrame == InitFrame /\ [][NextFrame]_vars

\* ---- the forms of assign: a container built from a range is assigned
\* new contents ----

\* n.assign(first, last)
DoAssignRange(n) ==
    /\ \E xs \in Lists :
          LET M == AssignRange(Now, n, xs)
          IN Bounded(M, Call("assign(first,last)", n, <<xs>>, NoIter, M))
    /\ UNCHANGED <<expr, pushed, applies, written, arithmetic>>

\* n.assign({ xs })
DoAssignList(n) ==
    /\ \E xs \in Lists :
          LET M == AssignList(Now, n, xs)
          IN Bounded(M, Call("assign(list)", n, <<xs>>, NoIter, M))
    /\ UNCHANGED <<expr, pushed, applies, written, arithmetic>>

\* n = { xs }
DoAssignListOperator(n) ==
    /\ \E xs \in Lists :
          LET M == AssignListOperator(Now, n, xs)
          IN Bounded(M, Call("=(list)", n, <<xs>>, NoIter, M))
    /\ UNCHANGED <<expr, pushed, applies, written, arithmetic>>

NextReplace ==
    \/ Sound /\ DoAssignFill("a")
    \/ Sound /\ DoAssignRange("a")
    \/ Sound /\ DoAssignList("a")
    \/ Sound /\ DoAssignListOperator("a")
    \/ Sound /\ DoPushBack("a")

SpecReplace == InitSize /\ [][NextReplace]_vars

\* ---- the constructors: a by one of the five plain constructors, b as a
\* copy of a or moved from a, c from an expression over a and b ----

\* the values an uninitialised pointer member can hold: no address of a
\* block, nullptr, or the address of a block allocated before
IndetPointers(h) == {Indet, Null} \cup (1 .. Len(h))

\* Vector(BinaryExpression&& xi_expression): no member is assigned, so
\* m_reservedSize and m_size keep their default member initialisers and
\* m_data is indeterminate, here p; the loop runs over m_size
ConstructExpr(M, n, e, p) ==
    AssignLoop([M EXCEPT !.vec[n] = [live |-> TRUE, m_reservedSize |-> DefaultReserved,
                                     m_size |-> 0, m_data |-> p]], n, e, 0)

\* Vector<T> n(expr); the node is a temporary of the statement
DoConstructExpr(n) ==
    /\ ~Alive(n)
    /\ expr # NoExpr
    /\ \E p \in IndetPointers(heap) :
          \E M \in ConstructExpr(Now, n, expr, p) :
             Bounded(M, Call("Vector(expr)", n, <<expr>>, NoIter, M))
    /\ expr' = NoExpr
    /\ UNCHANGED <<pushed, applies, written, arithmetic>>

NextConstruct ==
    \/ DoConstructDefault("a")
    \/ DoConstructSize("a")
    \/ DoConstructFill("a")
    \/ DoConstructRange("a")
    \/ DoConstructList("a")
    \/ DoCopyConstruct("b", "a")
    \/ DoMoveConstruct("b", "a")
    \/ Alive("a") /\ Alive("b") /\ BuildBinary("a", "b")
    \/ DoConstructExpr("c")

SpecConstruct == Init /\ [][NextConstruct]_vars

\* ---- the operations that reach reallocate(): a and b are built from
\* ranges; a is appended to, inserted into, resized, reserved, shrunk and
\* assigned to, also from b ----
NextRealloc ==
    \/ Sound /\ DoPushBack("a")
    \/ Sound /\ DoInsert("a")
    \/ Sound /\ DoResize("a")
    \/ Sound /\ DoResizeFill("a")
    \/ Sound /\ DoReserve("a")
    \/ Sound /\ DoShrinkToFit("a")
    \/ Sound /\ DoAssignFill("a")
    \/ Sound /\ DoAssignRange("a")
    \/ Sound /\ DoAssignListOperator("a")
    \/ Sound /\ DoAssignConst("a", "b")
    \/ Sound /\ DoMoveAssign("a", "b")

SpecRealloc == InitVecAssign /\ [][NextRealloc]_vars

\* ================================================================ claims
\* element i (0-based) of container n, in the current and in the next state
At(n, i) == Load(heap, vec[n].m_data, i)
AtNext(n, i) == Load(heap', vec'[n].m_data, i)

\* C1 (Spec): in every reachable state the length of a live container is at
\* most its capacity, also after push_back on a container of capacity 0.
C1_LengthWithinCapacity ==
    \A n \in VecNames : vec[n].live => vec[n].m_size <= vec[n].m_reservedSize

\* C2 (SpecAppend): after N push_back calls on a default-constructed
\* container, length() is N and element i is the i-th value appended.
C2_AppendCorrect ==
    /\ vec["a"].m_size = Len(pushed)
    /\ \A i \in 1 .. Len(pushed) : At("a", i - 1) = pushed[i]

\* C2 witness: MaxPush values appended, across both reallocations
C2_AppendedAcrossReallocations ==
    /\ Len(pushed) = MaxPush
    /\ vec["a"].m_reservedSize = 4 * DefaultReserved
    /\ Len(heap) = 3
    /\ pushed[1] # pushed[2]

\* C3 (SpecExpr): indexing the node a tok b, tok a binary operator of the
\* container, yields a[i] tok b[i] wherever that is defined.
C3_ElementwiseBinary ==
    (last.op = "operator[]" /\ Depth1(expr)) =>
        LET i == last.args[1]
            x == At(expr.le.name, i)
            y == At(expr.re.name, i)
        IN Defined(expr.tok, x, y) => last.ret = CppOp(expr.tok, x, y)

\* C3 witness: (a - b)[1] read where the subtraction wraps around
C3_SubtractionIndexed ==
    /\ last.op = "operator[]" /\ Depth1(expr)
    /\ expr.tok = "-"
    /\ last.args[1] = 1
    /\ At("a", 1) = 0 /\ At("b", 1) = 2
    /\ last.ret = Modulus - 2

\* C4 (SpecExpr): indexing c tok1 (a tok2 b), whose right operand is a node,
\* yields c[i] tok1 (a[i] tok2 b[i]) wherever that is defined.
C4_NestedRightOperand ==
    (last.op = "operator[]" /\ expr.kind = "bin" /\ expr.le.kind = "vec"
        /\ expr.re.kind = "bin") =>
        LET i == last.args[1]
            x == At(expr.le.name, i)
            u == At(expr.re.le.name, i)
            w == At(expr.re.re.name, i)
        IN (Defined(expr.re.tok, u, w)
              /\ Defined(expr.tok, x, CppOp(expr.re.tok, u, w))) =>
              last.ret = CppOp(expr.tok, x, CppOp(expr.re.tok, u, w))

\* C5 (SpecExpr): indexing (a tok1 b) tok2 c, tok2 a binary operator of the
\* container chained on the node, yields (a[i] tok1 b[i]) tok2 c[i] wherever
\* that is defined.
C5_ChainAppliesOperator ==
    (last.op = "operator[]" /\ expr.kind = "bin" /\ expr.le.kind = "bin"
        /\ expr.tok \in VecOperators) =>
        LET i == last.args[1]
            u == At(expr.le.le.name, i)
            w == At(expr.le.re.name, i)
            z == At(expr.re.name, i)
        IN (Defined(expr.le.tok, u, w)
              /\ Defined(expr.tok, CppOp(expr.le.tok, u, w), z)) =>
              last.ret = CppOp(expr.tok, CppOp(expr.le.tok, u, w), z)

\* C6 (SpecLazy): building a node makes no apply call; each indexing of the
\* node a tok b makes exactly one, also when the same index is read again;
\* assigning it into c makes one per element of c.
C6_Laziness ==
    [][/\ last'.op = "build" => applies' = applies
       /\ (last'.op = "operator[]" /\ Depth1(expr)) => applies' = applies + 1
       /\ (last'.op = "=" /\ Depth1(expr)) =>
              applies' = applies + vec[last'.who].m_size]_vars

\* C6 witness: the node a tok b has been indexed twice, and two apply calls
\* have been made
C6_IndexedTwice ==
    /\ last.op = "operator[]" /\ Depth1(expr)
    /\ applies = 2

\* the built-in operator of each compound assignment operator
OperatorOfCompound ==
    [asg \in CompoundOperators |->
        IF asg = "+=" THEN "+" ELSE IF asg = "-=" THEN "-"
        ELSE IF asg = "*=" THEN "*" ELSE IF asg = "/=" THEN "/"
        ELSE IF asg = "&=" THEN "&" ELSE IF asg = "|=" THEN "|"
        ELSE IF asg = "^=" THEN "^" ELSE IF asg = "<<=" THEN "<<" ELSE ">>"]

\* the storage of every container other than n, and the slots of n from its
\* length on, are the same in the next state
FrameOf(n) ==
    /\ \A m \in VecNames \ {n} :
          vec'[m] = vec[m] /\ heap'[vec[m].m_data] = heap[vec[m].m_data]
    /\ \A i \in vec[n].m_size .. vec[n].m_reservedSize - 1 : AtNext(n, i) = At(n, i)

\* C7 (SpecAssign): c = a tok b written a[i] tok b[i] to every index below
\* c.length() and nothing else: c's length, capacity and storage block, its
\* slots from c.length() on, and a and b stay as they were.
C7_AssignInto ==
    [][last'.op = "=" =>
          LET n == last'.who
              e == last'.args[1]
          IN /\ vec'[n] = vec[n]
             /\ Len(heap') = Len(heap)
             /\ FrameOf(n)
             /\ \A i \in 0 .. vec[n].m_size - 1 :
                   LET x == At(e.le.name, i)
                       y == At(e.re.name, i)
                   IN Defined(e.tok, x, y) => AtNext(n, i) = CppOp(e.tok, x, y)]_vars

\* C7 witness: c of length 1 was assigned a + b, a and b of length 2, and
\* holds the wrapped sum in its only element
C7_ShorterAssigned ==
    /\ last.op = "=" /\ last.args[1].tok = "+"
    /\ vec["c"].m_size = 1 /\ vec["a"].m_size = 2
    /\ At("a", 0) = 1 /\ At("b", 0) = Modulus - 1 /\ At("c", 0) = 0
    /\ At("c", 1) = Indet

\* C8 (Spec): a container constructed from a list of n values has length n,
\* the list's values as its elements, and a capacity of at least 2 * n.
C8_ListConstruction ==
    last.op = "Vector(list)" =>
        LET xs == last.args[1]
            n == last.who
        IN /\ vec[n].m_size = Len(xs)
           /\ \A i \in 1 .. Len(xs) : At(n, i - 1) = xs[i]
           /\ vec[n].m_reservedSize >= 2 * Len(xs)

\* the value r[i] of the right operand r of a compound assignment, r a
\* container or a node over two containers
RightValue(r, i) ==
    IF r.kind = "vec" THEN At(r.name, i)
    ELSE CppOp(r.tok, At(r.le.name, i), At(r.re.name, i))

RightDefined(r, i) ==
    r.kind = "bin" => Defined(r.tok, At(r.le.name, i), At(r.re.name, i))

\* C9 (SpecAssign): c asg r sets c[i] to (old c[i]) op r[i] for every index
\* below c.length(), op the operator of asg, and leaves c's length, capacity
\* and storage block and the other containers as they were.
C9_CompoundAssign ==
    [][last'.op = "compound" =>
          LET n == last'.who
              op == OperatorOfCompound[last'.args[1]]
              r == last'.args[2]
          IN /\ vec'[n] = vec[n]
             /\ Len(heap') = Len(heap)
             /\ FrameOf(n)
             /\ \A i \in 0 .. vec[n].m_size - 1 :
                   (RightDefined(r, i) /\ Defined(op, At(n, i), RightValue(r, i))) =>
                       AtNext(n, i) = CppOp(op, At(n, i), RightValue(r, i))]_vars

\* C9 witness: c |= a has just run on a c of length 2
C9_OrAssigned ==
    /\ last.op = "compound" /\ last.args[1] = "|=" /\ last.args[2] = Leaf("a")
    /\ vec["c"].m_size = 2
    /\ At("a", 0) = 1 /\ At("c", 0) = Modulus - 1

\* C10 (Spec): insert(begin() + pos, x) leaves old[0..pos), x, old[pos..) in
\* the container, its length one more, and returns a pointer to slot pos of
\* the container's storage as it is after the call.
C10_InsertPlacesElement ==
    [][last'.op = "insert" =>
          LET n == last'.who
              pos == last'.args[1]
              x == last'.args[2]
          IN /\ vec'[n].m_size = vec[n].m_size + 1
             /\ \A i \in 0 .. vec[n].m_size :
                   AtNext(n, i) = IF i < pos THEN At(n, i)
                                  ELSE IF i = pos THEN x ELSE At(n, i - 1)
             /\ last'.ret = Iter(vec'[n].m_data, pos)]_vars

\* C11 (SpecErase): insert(begin() + p, v) followed by erase(begin() + p)
\* leaves the container with the length and, in order, the elements it had
\* before the insert, also when the insert had to grow the capacity.
C11_InsertEraseRoundTrip ==
    last.op = "erase after insert" =>
        LET old == last.args[2]
        IN /\ vec[last.who].m_size = Len(old)
           /\ \A i \in 1 .. Len(old) : At(last.who, i - 1) = old[i]

\* C12 (SpecErase): erase(begin() + first, begin() + last) leaves
\* old[0..first) followed by old[last..length) in the container, its length
\* less by last - first, and returns a pointer to slot first, whether the
\* element type is arithmetic or not.
C12_EraseRangeClosesGap ==
    [][last'.op = "erase(first,last)" =>
          LET n == last'.who
              first == last'.args[1]
              lst == last'.args[2]
          IN /\ vec'[n].m_size = vec[n].m_size - (lst - first)
             /\ \A i \in 0 .. vec[n].m_size - (lst - first) - 1 :
                   AtNext(n, i) = IF i < first THEN At(n, i)
                                  ELSE At(n, i + (lst - first))
             /\ last'.ret = Iter(vec'[n].m_data, first)]_vars

\* C13 (SpecSize): at(i) returns a reference to element i when i < length;
\* when i >= length it throws std::out_of_range, and the container's length,
\* capacity and elements are as before.
C13_CheckedAccess ==
    [][last'.op = "at" =>
          LET n == last'.who
              pos == last'.args[1]
              r == last'.ret
          IN /\ pos < vec[n].m_size =>
                   /\ ~r.thrown
                   /\ r.ref = Iter(vec[n].m_data, pos)
                   /\ Load(heap', r.ref.blk, r.ref.off) = At(n, pos)
             /\ pos >= vec[n].m_size => r.thrown
             /\ vec' = vec /\ heap' = heap]_vars

\* C13 witness: a container of length 2 whose at(2) has just thrown
C13_AtPastTheEndThrown ==
    /\ last.op = "at" /\ last.args[1] = vec["a"].m_size
    /\ vec["a"].m_size = 2 /\ vec["a"].m_reservedSize > 2
    /\ last.ret.thrown

\* C19 (SpecSize): resize(n) and resize(n, value) leave the length n and the
\* first min(n, old length) elements as they were; the capacity becomes n when
\* n exceeds it and is unchanged otherwise; resize(n, value) beyond the old
\* length sets every slot from the old length to n to value.
C19_Resize ==
    [][last'.op \in {"resize", "resize(size,value)"} =>
          LET n == last'.who
              size == last'.args[1]
              old == vec[n].m_size
              kept == IF size < old THEN size ELSE old
          IN /\ vec'[n].m_size = size
             /\ \A i \in 0 .. kept - 1 : AtNext(n, i) = At(n, i)
             /\ vec'[n].m_reservedSize =
                   IF size > vec[n].m_reservedSize THEN size ELSE vec[n].m_reservedSize
             /\ last'.op = "resize(size,value)" =>
                   \A i \in old .. size - 1 : AtNext(n, i) = last'.args[2]
             /\ last'.ub = {}]_vars

\* C19 witness: after resize(2, 1) the container holds 2, 1 with length and
\* capacity 2 in a block allocated by a reallocation
C19_ResizedBeyondCapacity ==
    /\ last.op = "resize(size,value)" /\ last.args = <<2, 1>>
    /\ vec["a"].m_size = 2 /\ vec["a"].m_reservedSize = 2
    /\ vec["a"].m_data > 1
    /\ At("a", 0) = 2 /\ At("a", 1) = 1

\* C18 (SpecAppend): under appends only, the capacity of a default-constructed
\* container is always DefaultReserved * 2^k and at least the length; it
\* changes exactly on an append made while length = capacity, and then doubles.
C18_CapacityDoubling ==
    /\ [](/\ \E k \in 0 .. MaxPush :
               vec["a"].m_reservedSize = DefaultReserved * 2 ^ k
           /\ vec["a"].m_reservedSize >= vec["a"].m_size)
    /\ [][IF vec["a"].m_size = vec["a"].m_reservedSize
             /\ last'.op \in {"push_back(const T&)", "push_back(T&&)", "emplace_back"}
           THEN vec'["a"].m_reservedSize = 2 * vec["a"].m_reservedSize
           ELSE vec'["a"].m_reservedSize = vec["a"].m_reservedSize]_vars

\* C18 witness: the append that doubled the capacity a second time
C18_DoubledTwice ==
    /\ vec["a"].m_reservedSize = 4 * DefaultReserved
    /\ vec["a"].m_size = 2 * DefaultReserved + 1
    /\ last.op = "emplace_back"

\* the heap after the containers of ns, in this order, are destroyed from the
\* next state on
RECURSIVE DestroyedNext(_, _)
DestroyedNext(M, ns) ==
    IF ns = << >> THEN M ELSE DestroyedNext(Destruct(M, Head(ns)), Tail(ns))

\* C14 (SpecPair): Vector y(std::move(x)) gives y the length and, in order,
\* the elements x had, and leaves x with length 0; destroying x, and then y,
\* meets no undefined behaviour and releases no block twice.
C14_MoveConstruct ==
    [][last'.op = "Vector(Vector&&)" =>
          LET y == last'.who
              x == last'.args[1]
              D == DestroyedNext(Machine(vec', heap'), <<x, y>>)
          IN /\ vec'[y].m_size = vec[x].m_size
             /\ \A i \in 0 .. vec[x].m_size - 1 : AtNext(y, i) = At(x, i)
             /\ vec'[x].m_size = 0
             /\ last'.ub = {}
             /\ Destruct(Machine(vec', heap'), x).ub = {}
             /\ D.ub = {}
             /\ \A p \in 1 .. Len(D.heap) : D.heap[p].released <= 1]_vars

\* C14 witness: b has just been move-constructed from a, which held 1, 2
C14_MovedTwoElements ==
    /\ last.op = "Vector(Vector&&)" /\ last.who = "b"
    /\ vec["b"].m_size = 2 /\ At("b", 0) = 1 /\ At("b", 1) = 2
    /\ vec["a"].m_size = 0 /\ vec["a"].live

\* the calls that modify one container
Mutations == {"operator[]=", "push_back", "insert", "erase", "resize", "clear"}

\* container m and its storage block are the same in the next state
Untouched(m) ==
    /\ vec'[m] = vec[m]
    /\ heap'[vec[m].m_data] = heap[vec[m].m_data]

C20_SwapExchanges ==
    [][last'.op = "swap" =>
          LET x == last'.who
              y == last'.args[1]
              Twice == Swap(Machine(vec', heap'), x, y)
          IN /\ vec'[x] = vec[y]
             /\ vec'[y] = vec[x]
             /\ heap' = heap
             /\ \A i \in 0 .. vec[y].m_size - 1 : AtNext(x, i) = At(y, i)
             /\ \A i \in 0 .. vec[x].m_size - 1 : AtNext(y, i) = At(x, i)
             /\ last'.ub = {}
             /\ Twice.vec = vec /\ Twice.heap = heap]_vars

\* C20 witness: after the swap a holds the three elements b had and b the
\* two elements a had
C20_SwappedLengths ==
    /\ last.op = "swap"
    /\ vec["a"].m_size = 3 /\ vec["b"].m_size = 2
    /\ vec["a"].m_data > vec["b"].m_data
    /\ At("a", 2) # Indet

\* C16 (SpecVecAssign): x = y, y a const or a non-const container, leaves x
\* with the length of y and x[i] = y[i] for every i below it, and leaves y as
\* it was.
C16_ContainerAssign ==
    [][last'.op \in {"=(const Vector&)", "=(Vector&)"} =>
          LET x == last'.who
              y == last'.args[1]
          IN /\ vec'[x].m_size = vec[y].m_size
             /\ \A i \in 0 .. vec[y].m_size - 1 : AtNext(x, i) = At(y, i)
             /\ vec'[y] = vec[y]
             /\ \A i \in 0 .. vec[y].m_size - 1 : AtNext(y, i) = At(y, i)]_vars

\* C21 (SpecApply): for every tag with the in-place overloads, each of the
\* four overloads of apply(a, b) returns a op b whenever a op b is defined.
C21_OverloadsAgree ==
    (last.op = "apply" /\ last.who \in NumericTags) =>
        LET tok == TagOperator(last.who)
            a == last.args[3]
            b == last.args[4]
        IN Defined(tok, a, b) => last.ret = CppOp(tok, a, b)

\* C22 (SpecBitwise): a & b and a | b are statements the container accepts,
\* each builds a node of its matching tag, and indexing the node yields
\* a[i] & b[i], respectively a[i] | b[i].
C22_BitwiseBinary ==
    /\ (last.op = "ill-formed") => last.args[1] \notin {"&", "|"}
    /\ (last.op = "build" /\ last.args[1] = "&") => expr.op = "LAND"
    /\ (last.op = "build" /\ last.args[1] = "|") => expr.op = "LOR"
    /\ (last.op = "operator[]" /\ Depth1(expr) /\ expr.tok \in {"&", "|"}) =>
          last.ret = CppOp(expr.tok, At("a", last.args[1]), At("b", last.args[1]))

BulkInserts == {"insert(count,value)", "insert(first,last)", "insert(list)"}

\* C23 (SpecBulk): a bulk insert of the values xs at position p leaves the
\* container holding old[0..p), xs, old[p..), its length increased by the
\* number of values and its capacity at least the new length, and returns
\* the position p of the storage the container has after the call, also
\* when the call reallocates; with no value to insert nothing changes.
C23_BulkInsert ==
    [][last'.op \in BulkInserts =>
          LET n == last'.who
              p == last'.args[1]
              xs == last'.args[2]
              old == last'.args[3]
              want == SubSeq(old, 1, p) \o xs \o SubSeq(old, p + 1, Len(old))
          IN IF xs = << >> THEN vec' = vec /\ heap' = heap
             ELSE /\ vec'[n].m_size = Len(old) + Len(xs)
                  /\ vec'[n].m_reservedSize >= vec'[n].m_size
                  /\ \A i \in 1 .. Len(want) : AtNext(n, i - 1) = want[i]
                  /\ last'.ret = Iter(vec'[n].m_data, p)
                  /\ last'.ub = {}]_vars

\* the indices of the elements a call discards, from its arguments and the
\* length m the container had
Discarded(op, args, m) ==
    CASE op \in {"resize", "resize(size,value)"} -> {i \in 0 .. m - 1 : i >= args[1]}
      [] op = "erase" -> {args[1]}
      [] op = "erase(first,last)" -> {i \in 0 .. m - 1 : args[1] <= i /\ i < args[2]}
      [] op = "clear" -> 0 .. m - 1

\* C24 (SpecDestroy): for a non-arithmetic element type resize, erase and
\* clear destroy exactly the elements they discard; for an arithmetic
\* element type they destroy none.
C24_DestroysDiscarded ==
    [][last'.op \in {"resize", "resize(size,value)", "erase", "erase(first,last)", "clear"} =>
          last'.ret = IF arithmetic THEN {}
                      ELSE Discarded(last'.op, last'.args, vec[last'.who].m_size)]_vars

\* container n is the same in the next state: fields and storage block
Unchanged(n) == vec'[n] = vec[n] /\ heap'[vec[n].m_data] = heap[vec[n].m_data]

\* C25 (SpecFrame): building an expression over containers, indexing it and
\* assigning it into a container that is none of its operands leave the
\* length, the capacity and every slot of each operand as they were, at
\* every depth and for every operator.
C25_OperandsUnchanged ==
    [][/\ last'.op = "build" => \A n \in Operands(expr') : Unchanged(n)
       /\ last'.op = "operator[]" => \A n \in Operands(expr) : Unchanged(n)
       /\ last'.op = "=" => \A n \in Operands(last'.args[1]) : Unchanged(n)]_vars

\* C25 witness: c = a - (a + b) has run on containers of length 2 with
\* a[1] = 2 and b[1] = 2: the in-place overload stored into the temporary
\* that a + b yielded, and c[1] holds the value it returned
C25_NestedAssigned ==
    /\ last.op = "=" /\ last.who = "c"
    /\ last.args[1].re.kind = "bin" /\ last.args[1].tok = "-"
    /\ last.args[1].re.tok = "+"
    /\ vec["c"].m_size = 2
    /\ At("a", 1) = 2 /\ At("b", 1) = 2 /\ At("c", 1) = 2

\* the values a call of one of the forms of assign is given
Assigned(op, args) ==
    IF op = "assign(count,value)" THEN [i \in 1 .. args[1] |-> args[2]] ELSE args[1]

\* C26 (SpecReplace): after assign(count, value), assign(first, last),
\* assign(list) and the assignment of a list the container's length is the
\* number of values given, its elements are those values in order, and its
\* capacity is at least its length.
C26_AssignReplaces ==
    last.op \in {"assign(count,value)", "assign(first,last)", "assign(list)", "=(list)"} =>
        LET n == last.who
            xs == Assigned(last.op, last.args)
        IN /\ vec[n].m_size = Len(xs)
           /\ \A i \in 1 .. Len(xs) : At(n, i - 1) = xs[i]
           /\ vec[n].m_reservedSize >= vec[n].m_size

Constructors == {"Vector()", "Vector(size)", "Vector(size,value)", "Vector(first,last)",
                 "Vector(list)", "Vector(const Vector&)", "Vector(Vector&&)",
                 "Vector(expr)"}

\* C27 (SpecConstruct): when a constructor has completed, the storage of the
\* new container is an allocated block of exactly m_reservedSize slots and
\* its length is at most its capacity; a container constructed from an
\* expression has length 0.
C27_ConstructedStorage ==
    last.op \in Constructors =>
        LET v == vec[last.who]
        IN /\ IsBlock(heap, v.m_data)
           /\ heap[v.m_data].released = 0
           /\ Len(heap[v.m_data].cells) = v.m_reservedSize
           /\ v.m_size <= v.m_reservedSize
           /\ last.op = "Vector(expr)" => v.m_size = 0

\* C28 (SpecRealloc): the memcpy of every reallocate() call copies no more
\* elements than the old block, which it reads, and the new block, which it
\* writes, have slots.
C28_ReallocateWithinBlocks == "memcpy_out_of_bounds" \notin last.ub

\* the live containers whose storage is block p
Owners(p) == {n \in VecNames : vec[n].live /\ vec[n].m_data = p}

\* C29 (SpecPair): every block ever allocated is the storage of exactly one
\* live container and not released, or is the storage of none and has been
\* released exactly once; so a move leaves no block both unreleased and
\* unreferenced, and when no container is live every block is released.
C29_NoLeakNoDoubleRelease ==
    \A p \in 1 .. Len(heap) :
        \/ heap[p].released = 0 /\ Cardinality(Owners(p)) = 1
        \/ heap[p].released = 1 /\ Owners(p) = {}

=============================================================================
